---- MODULE Spec2Model ----
(***************************************************************************)
(* XInclude resolution of vscode-sxml (src/services/xinclude.ts).          *)
(*                                                                         *)
(* Two components are modelled:                                            *)
(*   - the fragment selector selectXPointerFragment, a single streaming    *)
(*     pass over the XML text driven by opentag/closetag events;           *)
(*   - the inclusion resolver resolveXIncludes, whose synchronous scan     *)
(*     spawns one promise per directive and joins them after the scan.     *)
(*                                                                         *)
(* Text is a sequence of lexical units.  An XML text is a sequence of      *)
(* markup and character-data tokens, one offset per token, so that         *)
(* parser.position, lastIndexOf and substring are computed on offsets as   *)
(* the code computes them.  A string (an attribute value, an xpointer      *)
(* expression) is a sequence of pieces.                                    *)
(***************************************************************************)
EXTENDS Integers, Sequences, FiniteSets, TLC

VARIABLES
    xpointer,     \* selector: the xpointer expression of the call
    xmlSource,    \* selector: the XML text the parser has been fed so far
    selParser,    \* selector: the SaxesParser (open tags, closedRoot, position)
    sel,          \* selector: the closure state of selectXPointerFragment
    selPhase,     \* selector: "idle", "scanning", "returned" or "threw"
    selResult,    \* selector: the returned fragment or the thrown error
    config,       \* workspace configuration "sxml"
    invs,         \* resolver: the invocations of resolveXIncludes
    tasks,        \* resolver: the includedContentPromise of each directive
    advisories,   \* window.showInformationMessage calls, in order
    acquisitions, \* fetch / openTextDocument calls, in order
    settled       \* task ids in the order their promises settled

selVars == <<xpointer, xmlSource, selParser, sel, selPhase, selResult>>
resVars == <<config, invs, tasks, advisories, acquisitions, settled>>
vars == <<xpointer, xmlSource, selParser, sel, selPhase, selResult,
          config, invs, tasks, advisories, acquisitions, settled>>

(***************************************************************************)
(* Bounds of the model.                                                    *)
(***************************************************************************)
MaxTokens == 6      \* tokens of a text fed to the selector
MaxDepthSetting == 2 \* largest configured xincludeDepth

(***************************************************************************)
(* Strings.                                                                *)
(***************************************************************************)
Name(x) == [t |-> "name", v |-> x]
Num(n) == [t |-> "int", v |-> n]
Space == [t |-> "sp", v |-> " "]
Slash == [t |-> "slash", v |-> "/"]
S(x) == <<Name(x)>>

RECURSIVE TrimStart(_)
TrimStart(s) ==
    IF s # <<>> /\ Head(s).t = "sp" THEN TrimStart(Tail(s)) ELSE s

RECURSIVE TrimEnd(_)
TrimEnd(s) ==
    IF s # <<>> /\ s[Len(s)].t = "sp" THEN TrimEnd(SubSeq(s, 1, Len(s) - 1)) ELSE s

Trim(s) == TrimEnd(TrimStart(s))

\* content.split("/"): the pieces between slashes, empty ones included.
RECURSIVE SplitSlash(_, _)
SplitSlash(s, cur) ==
    IF s = <<>> THEN <<cur>>
    ELSE IF Head(s).t = "slash" THEN <<cur>> \o SplitSlash(Tail(s), <<>>)
    ELSE SplitSlash(Tail(s), Append(cur, Head(s)))

\* .filter(Boolean): drops the empty strings.
RECURSIVE FilterNonEmpty(_)
FilterNonEmpty(ts) ==
    IF ts = <<>> THEN <<>>
    ELSE IF Head(ts) = <<>> THEN FilterNonEmpty(Tail(ts))
    ELSE <<Head(ts)>> \o FilterNonEmpty(Tail(ts))

(***************************************************************************)
(* XML text.                                                               *)
(***************************************************************************)
XML_NS == "http://www.w3.org/XML/1998/namespace"
XINCLUDE_NS == "http://www.w3.org/2001/XInclude"
XINCLUDE_LOCAL == "include"

NoAttrs == <<>>
Attr(prefix, uri, local, value) ==
    [prefix |-> prefix, uri |-> uri, local |-> local, value |-> value]

\* An open tag; sc is the "/>" form.  attrs maps qualified names to attributes.
OpenTok(uri, local, attrs, sc) ==
    [k |-> "open", uri |-> uri, local |-> local, attrs |-> attrs, isSelfClosing |-> sc,
     body |-> ""]
CloseTok(uri, local) ==
    [k |-> "close", uri |-> uri, local |-> local, attrs |-> NoAttrs, isSelfClosing |-> FALSE,
     body |-> ""]
\* Character data: "t" is a run of characters, "nl" a line break.
TextTok(v) ==
    [k |-> "text", uri |-> "", local |-> v, attrs |-> NoAttrs, isSelfClosing |-> FALSE,
     body |-> ""]
\* A processing instruction <?target body?>; body is "line" when no line break
\* precedes its "?>", "lines" otherwise.  Target "xml" is the XML declaration.
PITok(target, body) ==
    [k |-> "pi", uri |-> "", local |-> target, attrs |-> NoAttrs, isSelfClosing |-> FALSE,
     body |-> body]
\* Markup the parser rejects where it stands.
BadTok ==
    [k |-> "bad", uri |-> "", local |-> "", attrs |-> NoAttrs, isSelfClosing |-> FALSE,
     body |-> ""]

\* The element of a one-element set: a value computed once and handed on.
TheOne(X) == CHOOSE x \in X : TRUE

HasLt(tok) == tok.k # "text"

\* xmlSource.lastIndexOf("<", fromIndex), 0-based; -1 when there is none.
RECURSIVE LastIndexOfLt(_, _)
LastIndexOfLt(text, fromIndex) ==
    IF fromIndex < 0 THEN -1
    ELSE IF fromIndex + 1 > Len(text) THEN LastIndexOfLt(text, Len(text) - 1)
    ELSE IF HasLt(text[fromIndex + 1]) THEN fromIndex
    ELSE LastIndexOfLt(text, fromIndex - 1)

\* xmlSource.substring(from, to), 0-based and half-open.
Substring(text, from, to) == SubSeq(text, from + 1, to)

(***************************************************************************)
(* The SaxesParser: its open tags, whether the root has closed, and its    *)
(* position (the offset after the last token consumed).                    *)
(***************************************************************************)
NewParser == [tags |-> <<>>, closedRoot |-> FALSE, position |-> 0, line |-> 1, column |-> 0]

\* Whether the parser fails on tok (no "error" handler is set, so it throws).
ParserRejects(p, tok) ==
    \/ tok.k = "bad"
    \/ tok.k = "open" /\ p.closedRoot
    \/ tok.k = "close" /\ (p.tags = <<>> \/ p.tags[Len(p.tags)] # <<tok.uri, tok.local>>)
    \/ tok.k = "text" /\ tok.local # "nl" /\ p.tags = <<>>

\* Whether close() fails: an unclosed tag, or no root at all.
ParserRejectsEnd(p) == p.tags # <<>> \/ ~p.closedRoot

\* The parser after consuming tok, at the moment its event handler runs.
ParserAdvance(p, tok) ==
    LET pos == p.position + 1
        nl == tok.k = "text" /\ tok.local = "nl"
        moved == [p EXCEPT !.position = pos,
                           !.line = IF nl THEN p.line + 1 ELSE p.line,
                           !.column = IF nl THEN 0 ELSE p.column + 1]
    IN  IF tok.k = "open" THEN [moved EXCEPT !.tags = Append(p.tags, <<tok.uri, tok.local>>)]
        ELSE moved

\* The parser after the closetag event of the innermost open tag.
ParserPop(p) ==
    [p EXCEPT !.tags = SubSeq(p.tags, 1, Len(p.tags) - 1),
              !.closedRoot = (Len(p.tags) = 1)]

(***************************************************************************)
(* XPointer expressions.  An expression is given by its shape after the    *)
(* two regular expressions of the code have been applied to it:            *)
(*   wrapped  whether it is inside an xpointer(...) envelope,              *)
(*   form     "id" for id('X') or id("X") with X non-empty,                *)
(*            "element" for element(...), "bare" for anything else,        *)
(*   body     the text of X, of the parentheses' content, or of the whole. *)
(***************************************************************************)
XPtr(wrapped, form, body) == [wrapped |-> wrapped, form |-> form, body |-> body]

\* The text matched against /^element\((.+)\)$/ and /^id\(['"]([^'"]+)['"]\)$/.
InnerText(xp) ==
    IF xp.form = "element" THEN S("element(") \o xp.body \o S(")")
    ELSE IF xp.form = "id" THEN S("id('") \o xp.body \o S("')")
    ELSE Trim(xp.body)

normalizeXPointer(xp) ==
    IF xp.form = "id" /\ xp.body # <<>> THEN xp.body ELSE InnerText(xp)

isIntegerToken(token) == Len(token) = 1 /\ token[1].t = "int" /\ token[1].v >= 1

NoScheme == [type |-> "none", id |-> <<>>, steps |-> <<>>, error |-> "none"]

\* parseElementScheme: type "none" is the null result; error is what it throws.
parseElementScheme(xp) ==
    IF xp.form # "element" \/ xp.body = <<>> THEN NoScheme
    ELSE
        LET content == Trim(xp.body)
            tokens == FilterNonEmpty(SplitSlash(content, <<>>))
        IN  IF content = <<>> THEN [NoScheme EXCEPT !.error = "Empty element() XPointer."]
            ELSE IF tokens = <<>> THEN [NoScheme EXCEPT !.error = "Empty element() XPointer."]
            ELSE IF isIntegerToken(tokens[1]) THEN
                IF \E i \in 1..Len(tokens) : ~isIntegerToken(tokens[i])
                THEN [NoScheme EXCEPT !.error = "Invalid element() step"]
                ELSE [type |-> "positional", id |-> <<>>,
                      steps |-> [i \in 1..Len(tokens) |-> tokens[i][1].v], error |-> "none"]
            ELSE
                IF \E i \in 2..Len(tokens) : ~isIntegerToken(tokens[i])
                THEN [NoScheme EXCEPT !.error = "Invalid element() step"]
                ELSE [type |-> "id", id |-> tokens[1],
                      steps |-> [i \in 1..(Len(tokens) - 1) |-> tokens[i + 1][1].v],
                      error |-> "none"]

\* matchesId without the prefix test: any attribute with local name id matches.
matchesIdAnyPrefix(attributes, targetId) ==
    \E q \in DOMAIN attributes :
        attributes[q].local = "id" /\ attributes[q].value = targetId

matchesId(attributes, targetId) ==
    \E q \in DOMAIN attributes :
        LET attr == attributes[q]
            isXmlId == attr.uri = XML_NS \/ attr.prefix = "xml"
            isPlainId == attr.prefix = ""
        IN  attr.local = "id" /\ (isXmlId \/ isPlainId) /\ attr.value = targetId

matchesPath(path, target) ==
    Len(path) = Len(target) /\ \A i \in 1..Len(path) : path[i] = target[i]

\* Array.prototype.slice(0, n) and slice(n).
SliceTo(a, n) == SubSeq(a, 1, IF n < Len(a) THEN n ELSE Len(a))
SliceFrom(a, n) == SubSeq(a, n + 1, Len(a))
Pop(a) == SubSeq(a, 1, Len(a) - 1)

\* counts[i] = n on a sparse array: counts is a function on the set indices.
SetAt(counts, i, n) == [j \in DOMAIN counts \cup {i} |-> IF j = i THEN n ELSE counts[j]]
Defined(counts, i) == i \in DOMAIN counts

(***************************************************************************)
(* selectXPointerFragment: the closure state and the two event handlers.   *)
(***************************************************************************)
NullDepth == -1     \* targetDepth = null

NewSelection ==
    [depth |-> 0, found |-> FALSE, targetDepth |-> NullDepth,
     startPos |-> -1, endPos |-> -1,
     childCounts |-> <<0>>, elementPath |-> <<>>,
     positionalCounts |-> <<>>, idCounts |-> <<>>,
     idAnchorPath |-> <<>>, idAnchorFound |-> FALSE, error |-> "none"]

markTarget(s, node, position, text) ==
    LET tagStartPosition == LastIndexOfLt(text, position - 1)
    IN  IF tagStartPosition = -1
        THEN [s EXCEPT !.found = TRUE, !.error = "Could not find start of xpointer target."]
        ELSE IF node.isSelfClosing
        THEN [s EXCEPT !.found = TRUE, !.startPos = tagStartPosition,
                       !.endPos = position, !.targetDepth = NullDepth]
        ELSE [s EXCEPT !.found = TRUE, !.startPos = tagStartPosition,
                       !.targetDepth = s.depth]

\* The anchor test without its first-match guard: a later match moves the anchor.
isNewAnchorEveryMatch(s, node, scheme) == matchesId(node.attrs, scheme.id)

\* Line 128: the first element carrying the id becomes the anchor.
isNewAnchor(s, node, scheme) == ~s.idAnchorFound /\ matchesId(node.attrs, scheme.id)

selOpenTag(s, node, position, text, scheme, targetId) ==
    LET parentIndex == Len(s.childCounts)
        currentIndex == s.childCounts[parentIndex] + 1
        s1 == [s EXCEPT !.depth = @ + 1,
                        !.childCounts = Append([@ EXCEPT ![parentIndex] = currentIndex], 0),
                        !.elementPath = Append(@, currentIndex)]
    IN  IF s.found THEN s1
        ELSE IF scheme.type = "positional" THEN
            IF matchesPath(s1.elementPath, scheme.steps)
            THEN markTarget(s1, node, position, text) ELSE s1
        ELSE IF scheme.type = "id" THEN
            LET isAnchor == isNewAnchor(s1, node, scheme)
                s2 == IF isAnchor
                      THEN [s1 EXCEPT !.idAnchorFound = TRUE, !.idAnchorPath = s1.elementPath]
                      ELSE s1
                s3 == IF isAnchor /\ Len(scheme.steps) = 0
                      THEN markTarget(s2, node, position, text) ELSE s2
                matchesAnchor ==
                    /\ s3.idAnchorFound
                    /\ Len(s3.elementPath) > Len(s3.idAnchorPath)
                    /\ matchesPath(SliceTo(s3.elementPath, Len(s3.idAnchorPath)), s3.idAnchorPath)
                relativePath == SliceFrom(s3.elementPath, Len(s3.idAnchorPath))
            IN  IF matchesAnchor /\ matchesPath(relativePath, scheme.steps)
                THEN markTarget(s3, node, position, text) ELSE s3
        ELSE IF targetId # <<>> /\ matchesId(node.attrs, targetId)
            THEN markTarget(s1, node, position, text) ELSE s1

\* A target closed by the first close tag after its open tag.
closesTargetAtAnyDepth(s) == s.targetDepth # NullDepth

\* Line 176: the close tag that returns to the depth at which the target opened.
closesTarget(s) == s.targetDepth # NullDepth /\ s.depth = s.targetDepth

selCloseTag(s, position, scheme) ==
    LET currentChildCount == s.childCounts[Len(s.childCounts)]
        currentPath == s.elementPath
        depthIndex == Len(currentPath)
        s1 == IF /\ scheme.type = "positional"
                 /\ depthIndex <= Len(scheme.steps)
                 /\ matchesPath(currentPath, SliceTo(scheme.steps, depthIndex))
              THEN [s EXCEPT !.positionalCounts = SetAt(@, depthIndex, currentChildCount)]
              ELSE s
        relativePath == SliceFrom(currentPath, Len(s.idAnchorPath))
        s2 == IF scheme.type = "id" /\ s.idAnchorFound THEN
                  IF matchesPath(currentPath, s.idAnchorPath)
                  THEN [s1 EXCEPT !.idCounts = SetAt(@, 0, currentChildCount)]
                  ELSE IF /\ depthIndex > Len(s.idAnchorPath)
                          /\ Len(relativePath) <= Len(scheme.steps)
                          /\ matchesPath(relativePath, SliceTo(scheme.steps, Len(relativePath)))
                  THEN [s1 EXCEPT !.idCounts = SetAt(@, Len(relativePath), currentChildCount)]
                  ELSE s1
              ELSE s1
        s3 == IF closesTarget(s2)
              THEN [s2 EXCEPT !.endPos = position, !.targetDepth = NullDepth]
              ELSE s2
    IN  [s3 EXCEPT !.elementPath = Pop(@), !.childCounts = Pop(@), !.depth = @ - 1]

(***************************************************************************)
(* The result of selectXPointerFragment: the fragment, or the Error thrown.*)
(***************************************************************************)
SelError(kind, step, requested, available, name) ==
    [ok |-> FALSE, fragment |-> <<>>, kind |-> kind, step |-> step,
     requested |-> requested, available |-> available, name |-> name]
SelOk(fragment) ==
    [ok |-> TRUE, fragment |-> fragment, kind |-> "none", step |-> 0,
     requested |-> 0, available |-> 0, name |-> <<>>]

\* formatStepError(step, requested, available, anchor)
formatStepError(step, requested, available, anchor) ==
    SelError("step out of range", step, requested, available, anchor)

\* steps.join("/")
RECURSIVE JoinSlash(_)
JoinSlash(steps) ==
    IF steps = <<>> THEN <<>>
    ELSE IF Len(steps) = 1 THEN <<Num(steps[1])>>
    ELSE <<Num(steps[1]), Slash>> \o JoinSlash(Tail(steps))

\* The loop with "available <= requested" for "available < requested".
RECURSIVE firstShortStepInclusive(_, _, _)
firstShortStepInclusive(steps, counts, i) ==
    IF i >= Len(steps) THEN -1
    ELSE IF Defined(counts, i) /\ counts[i] <= steps[i + 1] THEN i
    ELSE firstShortStepInclusive(steps, counts, i + 1)

\* The smallest i in from..(Len(steps) - 1), 0-based, whose recorded count is
\* below steps[i]; -1 when the loop finds none.
RECURSIVE firstShortStep(_, _, _)
firstShortStep(steps, counts, i) ==
    IF i >= Len(steps) THEN -1
    ELSE IF Defined(counts, i) /\ counts[i] < steps[i + 1] THEN i
    ELSE firstShortStep(steps, counts, i + 1)

\* Lines 187-225: what the call returns or throws once the scan has ended.
selReturn(s, text, scheme, targetId) ==
    IF s.startPos = -1 \/ s.endPos = -1 THEN
        IF scheme.type = "positional" THEN
            IF scheme.steps[1] > s.childCounts[1]
            THEN formatStepError(1, scheme.steps[1], s.childCounts[1], <<>>)
            ELSE LET i == firstShortStep(scheme.steps, s.positionalCounts, 1)
                 IN  IF i # -1
                     THEN formatStepError(i + 1, scheme.steps[i + 1], s.positionalCounts[i], <<>>)
                     ELSE SelError("target not found", 0, 0, 0, JoinSlash(scheme.steps))
        ELSE IF scheme.type = "id" THEN
            IF ~s.idAnchorFound THEN SelError("target not found", 0, 0, 0, scheme.id)
            ELSE IF /\ Len(scheme.steps) > 0
                    /\ Defined(s.idCounts, 0)
                    /\ s.idCounts[0] < scheme.steps[1]
            THEN formatStepError(1, scheme.steps[1], s.idCounts[0], scheme.id)
            ELSE LET i == firstShortStep(scheme.steps, s.idCounts, 1)
                 IN  IF i # -1
                     THEN formatStepError(i + 1, scheme.steps[i + 1], s.idCounts[i], scheme.id)
                     ELSE SelError("target not found", 0, 0, 0, scheme.id)
        ELSE SelError("target not found", 0, 0, 0, targetId)
    ELSE SelOk(Substring(text, s.startPos, s.endPos))

\* Lines 73-77: the scheme and target id of the call, or the Error thrown
\* before the parser is created.
selPrepare(xp) ==
    LET elementScheme == parseElementScheme(xp)
        targetId == IF elementScheme.type # "none" THEN <<>> ELSE normalizeXPointer(xp)
    IN  IF elementScheme.error # "none"
        THEN [scheme |-> elementScheme, targetId |-> <<>>, error |-> elementScheme.error]
        ELSE IF elementScheme.type = "none" /\ targetId = <<>>
        THEN [scheme |-> elementScheme, targetId |-> <<>>, error |-> "Empty xpointer target."]
        ELSE [scheme |-> elementScheme, targetId |-> targetId, error |-> "none"]

\* One token through parser.write: the parser and the closure after the
\* events the token fires (an empty-element tag fires opentag, then closetag).
selFeed(p, s, tok, text, scheme, targetId) ==
    LET p1 == ParserAdvance(p, tok)
    IN  IF tok.k = "open" THEN
            LET s1 == selOpenTag(s, tok, p1.position, text, scheme, targetId)
            IN  IF tok.isSelfClosing
                THEN [parser |-> ParserPop(p1), s |-> selCloseTag(s1, p1.position, scheme)]
                ELSE [parser |-> p1, s |-> s1]
        ELSE IF tok.k = "close"
        THEN [parser |-> ParserPop(p1), s |-> selCloseTag(s, p1.position, scheme)]
        ELSE [parser |-> p1, s |-> s]

\* parser.write(xmlSource).close() from token i on.
RECURSIVE selScan(_, _, _, _, _, _)
selScan(text, i, p, s, scheme, targetId) ==
    IF s.error # "none" THEN SelError(s.error, 0, 0, 0, <<>>)
    ELSE IF i > Len(text) THEN
        IF ParserRejectsEnd(p) THEN SelError("parse error", 0, 0, 0, <<>>)
        ELSE selReturn(s, text, scheme, targetId)
    ELSE IF ParserRejects(p, text[i]) THEN SelError("parse error", 0, 0, 0, <<>>)
    ELSE TheOne({ selScan(text, i + 1, fed.parser, fed.s, scheme, targetId) :
                    fed \in {selFeed(p, s, text[i], text, scheme, targetId)} })

selectXPointerFragment(text, xp) ==
    LET prep == selPrepare(xp)
    IN  IF prep.error # "none" THEN SelError(prep.error, 0, 0, 0, <<>>)
        ELSE selScan(text, 1, NewParser, NewSelection, prep.scheme, prep.targetId)

(***************************************************************************)
(* Locations.  A URL is a string whose first piece is its scheme and whose *)
(* second piece is the directory part; a relative reference has no scheme. *)
(* A "uni" piece is a character above U+007F, a "pct" piece its            *)
(* percent-encoded form.                                                   *)
(***************************************************************************)
Scheme(x) == [t |-> "scheme", v |-> x]
Dir(x) == [t |-> "dir", v |-> x]
Uni(x) == [t |-> "uni", v |-> x]
Pct(x) == [t |-> "pct", v |-> x]

\* A piece no URL parser accepts (such as "//[", a host that cannot be read).
Unparsable == [t |-> "unparsable", v |-> "//["]

\* iriToUri that leaves the text as it is.
iriToUriUnencoded(iri) == iri

iriToUri(iri) ==
    [i \in 1..Len(iri) |-> IF iri[i].t = "uni" THEN Pct(iri[i].v) ELSE iri[i]]

\* Whether the URL parser accepts the text at all.
UrlParses(u) == \A i \in 1..Len(u) : u[i].t # "unparsable"

\* new URL(u) succeeds exactly on an absolute URL.
IsAbsoluteUrl(u) == u # <<>> /\ u[1].t = "scheme" /\ UrlParses(u)

\* URL.toString(): the scheme in lower case, a blank percent-encoded.
ToLower(x) == IF x = "HTTP" THEN "http" ELSE x
UrlToString(u) ==
    [i \in 1..Len(u) |->
        IF u[i].t = "scheme" THEN Scheme(ToLower(u[i].v))
        ELSE IF u[i].t = "sp" THEN Pct("20")
        ELSE u[i]]

\* new URL(ref, base).toString() for a base that is an absolute URL.
UrlAgainst(ref, base) ==
    IF ref # <<>> /\ ref[1].t = "dir" THEN <<base[1]>> \o UrlToString(ref)
    ELSE <<base[1], base[2]>> \o UrlToString(ref)

NoUri == <<>>      \* baseUri undefined

\* The fallback of line 253 (utils.normalizeSchemaUrl).
normalizeSchemaUrl(href) == <<[t |-> "legacy", v |-> "schema"]>> \o href

resolveXIncludeHref(href, baseUri) ==
    LET hrefUri == iriToUri(href)
    IN  IF IsAbsoluteUrl(hrefUri) THEN UrlToString(hrefUri)
        ELSE IF baseUri # NoUri /\ IsAbsoluteUrl(baseUri) /\ UrlParses(hrefUri)
        THEN UrlAgainst(hrefUri, baseUri)
        ELSE normalizeSchemaUrl(href)

\* Uri.parse(url).scheme: "file" when the string carries none.
UriScheme(url) == IF IsAbsoluteUrl(url) THEN url[1].v ELSE "file"

(***************************************************************************)
(* Markers written into the output, and the pieces of outputParts.         *)
(***************************************************************************)
Marker(target, uri, warning, err, line, col, start) ==
    [k |-> "marker", target |-> target, uri |-> uri, warning |-> warning,
     err |-> err, line |-> line, col |-> col, start |-> start]

Err(kind) == SelError(kind, 0, 0, 0, <<>>)
NoErr == Err("none")
warningPI(line, col) ==
    << Marker("xml-xi-map-enter", NoUri, "XInclude resolution is turned off in settings.",
              NoErr, line, col, 0),
       Marker("xml-xi-map-leave", NoUri, "", NoErr, 0, 0, 0) >>

\* <?xml-xi-error err=".." parent-start=".." parent-col=".."?>
errorPI(err, start, col) == << Marker("xml-xi-error", NoUri, "", err, 0, col, start) >>

\* makePI without the test of line 318: the top-level pair at every depth.
makePIAtAnyDepth(resolvedNestedXml, depth, hrefURL, line, col) ==
    << Marker("xml-xi-map-enter", hrefURL, "", NoErr, line, col, 0) >>
        \o resolvedNestedXml
        \o << Marker("xml-xi-map-leave", NoUri, "", NoErr, 0, 0, 0) >>

\* makePI of lines 314-327 for a directive found at depth, line, col.
makePI(resolvedNestedXml, depth, hrefURL, line, col) ==
    IF depth > 0
    THEN << Marker("xml-xi-nested-enter", hrefURL, "", NoErr, 0, 0, 0) >>
            \o resolvedNestedXml
            \o << Marker("xml-xi-nested-leave", NoUri, "", NoErr, 0, 0, 0) >>
    ELSE << Marker("xml-xi-map-enter", hrefURL, "", NoErr, line, col, 0) >>
            \o resolvedNestedXml
            \o << Marker("xml-xi-map-leave", NoUri, "", NoErr, 0, 0, 0) >>

\* handleErr of lines 328-330; position is resolverParser.position when it runs.
handleErr(err, position, col) == errorPI(err, position, col)

\* A promise that has no .catch: the failure rejects it.
catchErrMissing(err, position, col) == [phase |-> "rejected", value |-> <<>>]

\* .catch(handleErr) of lines 348 and 358: the failure becomes the promise's value.
catchErr(err, position, col) == [phase |-> "settled", value |-> handleErr(err, position, col)]

TextPart(text) == [k |-> "string", text |-> text, task |-> 0]
PromisePart(t) == [k |-> "promise", text |-> <<>>, task |-> t]

(***************************************************************************)
(* Configuration: workspace.getConfiguration("sxml").                      *)
(***************************************************************************)
DefaultDepth == 50
\* get("xincludeDepth") as number || 50; 0 stands for an unset or zero value.
depthLimitOf(cfg) == IF cfg.xincludeDepth = 0 THEN DefaultDepth ELSE cfg.xincludeDepth

(***************************************************************************)
(* resolveXIncludes: the scan.  The closure of one invocation during       *)
(* parser.write: the parser, outputParts, lastPos, foundXi, and what the   *)
(* handlers started (promises, acquisitions, advisories).                  *)
(***************************************************************************)
NewScan ==
    [parser |-> NewParser, outputParts |-> <<>>, lastPos |-> 0, foundXi |-> FALSE,
     spawned |-> <<>>, acquired |-> <<>>, advised |-> <<>>]

\* An inclusion element recognised by its local name alone.
isIncludeByName(node) == node.local = XINCLUDE_LOCAL

isInclude(node) == node.uri = XINCLUDE_NS /\ node.local = XINCLUDE_LOCAL

AttrValue(node, q, default) == IF q \in DOMAIN node.attrs THEN node.attrs[q].value ELSE default

NoXPointer == XPtr(FALSE, "bare", <<>>)     \* xpointerAttr?.value is falsy

\* The promise of lines 331-359 at the moment it is created: the acquisition
\* is in flight.
NewTask(inv, depth, hrefURL, xp, line, col) ==
    [inv |-> inv, depth |-> depth, hrefURL |-> hrefURL,
     via |-> IF UriScheme(hrefURL) \in {"http", "https"} THEN "fetch" ELSE "openTextDocument",
     xpointer |-> xp, line |-> line, col |-> col,
     phase |-> "acquiring", child |-> 0, failed |-> FALSE, value |-> <<>>]

\* An acquisition that is not started while an earlier sibling's promise exists.
startAcquisitionAfterSiblings(sc, inv, hrefURL, via) ==
    IF sc.spawned = <<>>
    THEN Append(sc.acquired, [inv |-> inv, url |-> hrefURL, via |-> via])
    ELSE sc.acquired

\* fetch(hrefURL) / workspace.openTextDocument(includeUri), called in the
\* opentag handler itself (lines 334 and 350).
startAcquisition(sc, inv, hrefURL, via) ==
    Append(sc.acquired, [inv |-> inv, url |-> hrefURL, via |-> via])

\* The comparison of line 267 off by one.
belowLimitInclusive(depth, depthLimit) == depth <= depthLimit

\* Whether the directive is expanded at this depth (line 267).
belowLimit(depth, depthLimit) == depth < depthLimit

\* The opentag handler of lines 263-369.  sc is the closure after the parser
\* consumed node; inv is this invocation, nextTask the id of the next promise.
resOpenTag(sc, node, text, inv, depth, baseUri, cfg, nextTask) ==
    IF ~isInclude(node) THEN sc
    ELSE
      LET s1 == [sc EXCEPT !.foundXi = TRUE]
          depthLimit == depthLimitOf(cfg)
          position == sc.parser.position
          line == sc.parser.line
          col == sc.parser.column
          tagStartPosition == LastIndexOfLt(text, position - 1)
          s2 == [s1 EXCEPT
                   !.outputParts = Append(@, TextPart(Substring(text, sc.lastPos, tagStartPosition))),
                   !.lastPos = IF node.isSelfClosing THEN position ELSE @]
          parseMode == AttrValue(node, "parse", "xml")
      IN  IF ~belowLimit(depth, depthLimit)
          THEN [s1 EXCEPT !.advised =
                    Append(@, [inv |-> inv,
                               message |-> "Maximum XInclude depth reached, skipping further includes."])]
          ELSE IF tagStartPosition = -1 THEN s1
          ELSE IF cfg.xincludeSupport = FALSE
          THEN [s2 EXCEPT !.outputParts = Append(@, TextPart(warningPI(line, col)))]
          ELSE IF parseMode # "xml"
          THEN [s2 EXCEPT !.outputParts =
                    Append(@, TextPart(errorPI(Err("Unsupported XInclude parse value"), position, col)))]
          ELSE IF "href" \in DOMAIN node.attrs
          THEN LET hrefURL == resolveXIncludeHref(node.attrs["href"].value, baseUri)
                   t == NewTask(inv, depth, hrefURL,
                                AttrValue(node, "xpointer", NoXPointer), line, col)
               IN  [s2 EXCEPT !.outputParts = Append(@, PromisePart(nextTask + Len(sc.spawned))),
                              !.spawned = Append(@, t),
                              !.acquired = startAcquisition(sc, inv, hrefURL, t.via)]
          ELSE s2

\* The closetag handler of lines 371-378.
resCloseTag(sc, node, depth) ==
    IF isInclude(node) /\ depth = 0 THEN [sc EXCEPT !.lastPos = sc.parser.position] ELSE sc

\* One token through resolverParser.write.
resFeed(sc, tok, text, inv, depth, baseUri, cfg, nextTask) ==
    LET p1 == ParserAdvance(sc.parser, tok)
        s1 == [sc EXCEPT !.parser = p1]
    IN  IF tok.k = "open" THEN
            LET s2 == resOpenTag(s1, tok, text, inv, depth, baseUri, cfg, nextTask)
            IN  IF tok.isSelfClosing
                THEN [resCloseTag(s2, tok, depth) EXCEPT !.parser = ParserPop(p1)]
                ELSE s2
        ELSE IF tok.k = "close"
        THEN [resCloseTag(s1, tok, depth) EXCEPT !.parser = ParserPop(p1)]
        ELSE s1

\* resolverParser.write(xmlSource).close() from token i on: the closure when
\* the scan ends, and whether it ended by throwing.
RECURSIVE resScan(_, _, _, _, _, _, _, _)
resScan(text, i, sc, inv, depth, baseUri, cfg, nextTask) ==
    IF i > Len(text) THEN [closure |-> sc, threw |-> ParserRejectsEnd(sc.parser)]
    ELSE IF ParserRejects(sc.parser, text[i]) THEN [closure |-> sc, threw |-> TRUE]
    ELSE TheOne({ resScan(text, i + 1, next, inv, depth, baseUri, cfg, nextTask) :
                    next \in {resFeed(sc, text[i], text, inv, depth, baseUri, cfg, nextTask)} })

\* doc.replace(/^\s*<\?xml.*?\?>\s*/, ""): leading white space, then a
\* processing instruction whose text begins with "<?xml" and reaches "?>"
\* before any line break, then white space.
IsSpaceTok(tok) == tok.k = "text" /\ tok.local = "nl"
RECURSIVE SkipSpace(_)
SkipSpace(text) == IF text # <<>> /\ IsSpaceTok(Head(text)) THEN SkipSpace(Tail(text)) ELSE text
BeginsWithXml(target) == target \in {"xml", "xml-stylesheet"}
stripXmlDecl(doc) ==
    LET rest == SkipSpace(doc)
    IN  IF rest # <<>> /\ Head(rest).k = "pi" /\ BeginsWithXml(Head(rest).local)
           /\ Head(rest).body = "line"
        THEN SkipSpace(Tail(rest))
        ELSE doc

\* A catch block that looks at foundXi only.
afterScanIgnoringDepth(threw, depth, foundXi) ==
    IF threw /\ ~foundXi THEN "return xmlSource" ELSE "continue"

\* Lines 383-389: what the catch block makes of a scan that threw.
afterScan(threw, depth, foundXi) ==
    IF threw /\ (depth > 0 \/ ~foundXi) THEN "return xmlSource" ELSE "continue"

\* resolverParser.position once the scan is over, as handleErr reads it:
\* close() re-initialises the parser when it succeeds, and a parser that
\* threw stays where it failed.
positionAfterScan(parser, threw) == IF threw THEN parser.position ELSE NewParser.position

\* resolveXIncludes(text, depth, baseUri) up to its first await: the
\* invocation id, called by promise caller (0 for the top-level call).
Invocation(text, id, depth, baseUri, caller, cfg, nextTask) ==
    LET scan == resScan(text, 1, NewScan, id, depth, baseUri, cfg, nextTask)
        c == scan.closure
        outcome == afterScan(scan.threw, depth, c.foundXi)
    IN  [inv |->
            [xmlSource |-> text, depth |-> depth, baseUri |-> baseUri, caller |-> caller,
             outputParts |->
                IF outcome = "continue"
                THEN Append(c.outputParts, TextPart(Substring(text, c.lastPos, Len(text))))
                ELSE c.outputParts,
             lastPos |-> c.lastPos, foundXi |-> c.foundXi,
             position |-> c.parser.position, threw |-> scan.threw,
             parserPosition |-> positionAfterScan(c.parser, scan.threw),
             cfg |-> cfg,    \* what getConfiguration("sxml") gave during the scan
             status |-> CASE outcome = "continue" -> "awaiting"
                          [] outcome = "return xmlSource" -> "returned"
                          [] OTHER -> "rejected",
             result |-> IF outcome = "return xmlSource" THEN text ELSE <<>>],
         spawned |-> c.spawned, acquired |-> c.acquired, advised |-> c.advised]

\* The k-th promise of invocation i to have settled, and the promises of
\* outputParts before part n.
SettledOf(i) == SelectSeq(settled, LAMBDA t : tasks[t].inv = i)
PromisesBefore(i, n) == Cardinality({m \in 1..n : invs[i].outputParts[m].k = "promise"})

\* Promise.all read as "the values in the order the promises settled".
promiseAllAsSettled(i) ==
    [n \in 1..Len(invs[i].outputParts) |->
        LET part == invs[i].outputParts[n]
        IN  IF part.k = "promise"
            THEN tasks[SettledOf(i)[PromisesBefore(i, n)]].value
            ELSE part.text]

\* await Promise.all(outputParts): the strings, in the order of outputParts.
promiseAll(i) ==
    [n \in 1..Len(invs[i].outputParts) |->
        LET part == invs[i].outputParts[n]
        IN  IF part.k = "promise" THEN tasks[part.task].value ELSE part.text]

\* resolvedParts.join("")
RECURSIVE joinAll(_)
joinAll(parts) == IF parts = <<>> THEN <<>> ELSE Head(parts) \o joinAll(Tail(parts))

AnyRejected(i) ==
    \E n \in 1..Len(invs[i].outputParts) :
        invs[i].outputParts[n].k = "promise"
            /\ tasks[invs[i].outputParts[n].task].phase = "rejected"

AllSettled(i) ==
    \A n \in 1..Len(invs[i].outputParts) :
        invs[i].outputParts[n].k = "promise"
            => tasks[invs[i].outputParts[n].task].phase = "settled"

(***************************************************************************)
(* The documents of the model: the resources behind fetch and              *)
(* openTextDocument, and the texts handed to the top-level call.           *)
(***************************************************************************)
E(n) == OpenTok("", n, NoAttrs, FALSE)
EC(n) == CloseTok("", n)
T == TextTok("t")
NL == TextTok("nl")
Href(h) == "href" :> Attr("", "", "href", h)
XPointerAttr(x) == "xpointer" :> Attr("", "", "xpointer", x)
ParseAttr(v) == "parse" :> Attr("", "", "parse", v)
Xi(attrs) == OpenTok(XINCLUDE_NS, XINCLUDE_LOCAL, attrs, TRUE)
XiOpen(attrs) == OpenTok(XINCLUDE_NS, XINCLUDE_LOCAL, attrs, FALSE)
XiClose == CloseTok(XINCLUDE_NS, XINCLUDE_LOCAL)

FileUrl(file) == <<Scheme("file"), Dir("/d1/"), Name(file)>>
HttpUrl(file) == <<Scheme("http"), Dir("//h/"), Name(file)>>
TopUri == FileUrl("top.xml")

LeafDoc == <<PITok("xml", "line"), NL, E("p"), T, EC("p")>>
IdsDoc ==
    << E("r"),
       OpenTok("", "s", "xml:id" :> Attr("xml", XML_NS, "id", S("a")), FALSE), T, EC("s"),
       OpenTok("", "s", "id" :> Attr("", "", "id", S("b")), TRUE),
       EC("r") >>
SelfDoc == <<E("r"), Xi(Href(S("self.xml"))), EC("r")>>
MidDoc == <<E("m"), XiOpen(Href(S("leaf.xml"))), XiClose, T, EC("m")>>
BadDoc == <<E("r"), Xi(Href(S("leaf.xml"))), BadTok>>
\* A resource whose XML declaration is written over several lines.
RemoteDoc == <<PITok("xml", "lines"), NL, E("q"), EC("q")>>

\* Resources of a second directory: one that includes "leaf.xml" by a
\* relative href, and the leaf.xml beside it, which has no XML declaration
\* and starts with a stylesheet processing instruction.
OtherDirUrl(file) == <<Scheme("file"), Dir("/d2/"), Name(file)>>
OtherMidDoc == <<E("m"), Xi(Href(S("leaf.xml"))), EC("m")>>
OtherLeafDoc == <<PITok("xml-stylesheet", "line"), NL, E("p2"), EC("p2")>>
\* A resource whose file name has a character above U+007F and a blank.
AccentedName == <<Uni("e-acute"), Space, Name("a.xml")>>
AccentedUrl == <<Scheme("file"), Dir("/d1/"), Pct("e-acute"), Pct("20"), Name("a.xml")>>
AccentedDoc == <<E("included"), T, EC("included")>>

\* Two resources that include each other.
CycleDocA == <<E("a"), Xi(Href(S("b.xml"))), EC("a")>>
CycleDocB == <<E("b"), Xi(Href(S("a.xml"))), EC("b")>>

\* What each location holds; any other location cannot be acquired.
Store ==
    (FileUrl("leaf.xml") :> LeafDoc) @@ (FileUrl("ids.xml") :> IdsDoc)
        @@ (FileUrl("self.xml") :> SelfDoc) @@ (FileUrl("mid.xml") :> MidDoc)
        @@ (FileUrl("bad.xml") :> BadDoc) @@ (HttpUrl("leaf.xml") :> RemoteDoc)
        @@ (OtherDirUrl("mid.xml") :> OtherMidDoc) @@ (OtherDirUrl("leaf.xml") :> OtherLeafDoc)
        @@ (AccentedUrl :> AccentedDoc)
        @@ (FileUrl("a.xml") :> CycleDocA) @@ (FileUrl("b.xml") :> CycleDocB)

TopDocs ==
    { \* two sibling directives, the second narrowed by id('a')
      <<E("r"), Xi(Href(S("leaf.xml"))), T, NL,
        Xi(Href(S("ids.xml")) @@ XPointerAttr(XPtr(FALSE, "id", S("a")))), EC("r")>>,
      \* no inclusion element
      <<E("r"), E("p"), T, EC("p"), NL, OpenTok("urn:other", "include", NoAttrs, TRUE),
        EC("r")>>,
      \* a document that includes itself
      SelfDoc,
      \* a chain top -> mid -> leaf
      <<E("r"), Xi(Href(S("mid.xml"))), T, EC("r")>>,
      \* malformed, no inclusion element
      <<E("r"), E("p"), T>>,
      \* malformed after an inclusion element
      <<E("r"), Xi(Href(S("leaf.xml"))), T, BadTok, T>>,
      \* parse="text", a missing xpointer target, a remote resource
      <<E("r"), Xi(Href(S("leaf.xml")) @@ ParseAttr("text")),
        Xi(Href(S("ids.xml")) @@ XPointerAttr(XPtr(FALSE, "id", S("zz")))), NL,
        Xi(Href(HttpUrl("leaf.xml"))), EC("r")>>,
      \* a directive with a close tag and a fallback holding another directive
      <<E("r"), XiOpen(Href(S("none.xml"))), E("fallback"), Xi(Href(S("leaf.xml"))),
        EC("fallback"), XiClose, EC("r")>>,
      \* a malformed resource
      <<E("r"), Xi(Href(S("bad.xml"))), EC("r")>>,
      \* a resource of another directory named by an absolute path, an
      \* absolute href not in normal form, a non-ASCII file name, an href no
      \* URL parser accepts
      <<E("r"), Xi(Href(<<Dir("/d2/"), Name("mid.xml")>>)),
        Xi(Href(<<Scheme("HTTP"), Dir("//h/"), Name("leaf.xml")>>)),
        Xi(Href(AccentedName)), Xi(Href(<<Unparsable>>)), EC("r")>>,
      \* a cycle of two resources
      CycleDocA,
      \* a chain beside a resource that cannot be acquired
      <<E("r"), Xi(Href(S("mid.xml"))), Xi(Href(S("none.xml"))), EC("r")>> }

Configs == [xincludeDepth : 1..MaxDepthSetting, xincludeSupport : BOOLEAN]

(***************************************************************************)
(* The selector as a state machine: one call of selectXPointerFragment,    *)
(* its text fed to the parser token by token.                              *)
(***************************************************************************)
IdAttrs ==
    { NoAttrs,
      "xml:id" :> Attr("xml", XML_NS, "id", S("a")),
      "id" :> Attr("", "", "id", S("a")),
      "x:id" :> Attr("x", "urn:x", "id", S("a")) }

SelOpenToks ==
    {OpenTok("", "e", a, FALSE) : a \in IdAttrs}
        \cup {OpenTok("", "e", a, TRUE) : a \in {NoAttrs, "id" :> Attr("", "", "id", S("a"))}}

\* element(s1/.../sk) and element(ID/s1/.../sk)
Positional(steps) == XPtr(FALSE, "element", JoinSlash(steps))
Anchored(id, steps) ==
    XPtr(FALSE, "element", IF steps = <<>> THEN S(id) ELSE S(id) \o <<Slash>> \o JoinSlash(steps))

PlainIdPointers ==
    { XPtr(FALSE, "id", S("a")), XPtr(TRUE, "id", S("a")),
      XPtr(FALSE, "bare", S("a")), XPtr(TRUE, "bare", S("b")) }

PositionalSteps ==
    { <<1>>, <<2>>, <<1, 1>>, <<1, 2>>, <<1, 3>>, <<1, 1, 1>>, <<1, 2, 1>>, <<1, 1, 2>> }

AnchoredSteps == { <<>>, <<1>>, <<2>>, <<1, 1>>, <<2, 1>> }

\* The empty expression, blank expressions, element() with nothing, blanks
\* or slashes between the parentheses, and element() with a step that is not
\* a positive integer.
DegeneratePointers ==
    { XPtr(FALSE, "bare", <<>>), XPtr(FALSE, "bare", <<Space>>), XPtr(TRUE, "bare", <<Space>>),
      XPtr(FALSE, "element", <<>>), XPtr(TRUE, "element", <<>>),
      XPtr(FALSE, "element", <<Space>>), XPtr(FALSE, "element", <<Slash>>),
      XPtr(TRUE, "element", <<Slash, Slash>>),
      XPtr(FALSE, "element", <<Num(1), Slash, Name("x")>>),
      XPtr(FALSE, "element", <<Num(1), Slash, Num(0)>>),
      XPtr(FALSE, "element", <<Name("a"), Slash, Name("x")>>),
      XPtr(TRUE, "element", <<Name("a"), Slash, Num(1), Slash, Num(0)>>) }

Pointers ==
    PlainIdPointers
        \cup {Positional(st) : st \in PositionalSteps}
        \cup {Anchored("a", st) : st \in AnchoredSteps}
        \cup {Anchored("b", <<1>>)}
        \cup DegeneratePointers

\* The text read so far, with tok and the close tags still owed, is a text of
\* at most n tokens.
FitsIn(n, text, p, tok) ==
    Len(text) + 1 + Len(ParserAdvance(p, tok).tags)
        - (IF tok.k = "close" \/ tok.isSelfClosing THEN 1 ELSE 0) <= n

\* A longer text: the element with id "a" has one child without children,
\* and the sibling that follows it has a first child with a child of its own:
\* <e><e id="a"><e/></e><e><e><e/></e></e></e>.
SiblingSubtreeDoc ==
    << OpenTok("", "e", NoAttrs, FALSE),
       OpenTok("", "e", "id" :> Attr("", "", "id", S("a")), FALSE),
       OpenTok("", "e", NoAttrs, TRUE), CloseTok("", "e"),
       OpenTok("", "e", NoAttrs, FALSE), OpenTok("", "e", NoAttrs, FALSE),
       OpenTok("", "e", NoAttrs, TRUE), CloseTok("", "e"), CloseTok("", "e"),
       CloseTok("", "e") >>

\* The texts the selector is given beyond the token bound.
SelSamples == {SiblingSubtreeDoc}

\* The text read so far, with tok, is the beginning of one of the samples.
BeginsSample(text, tok) ==
    \E d \in SelSamples :
        Len(text) < Len(d) /\ SubSeq(d, 1, Len(text) + 1) = Append(text, tok)

Pending == SelError("pending", 0, 0, 0, <<>>)

ResolverIdle ==
    /\ config = [xincludeDepth |-> 1, xincludeSupport |-> TRUE]
    /\ invs = <<>>
    /\ tasks = <<>>
    /\ advisories = <<>>
    /\ acquisitions = <<>>
    /\ settled = <<>>

SelInit ==
    /\ xpointer \in Pointers
    /\ xmlSource = <<>>
    /\ selParser = NewParser
    /\ sel = NewSelection
    /\ selPhase = "idle"
    /\ selResult = Pending
    /\ ResolverIdle

\* Lines 73-79: parse the expression, then create the parser.
SelectBegin ==
    /\ selPhase = "idle"
    /\ LET prep == selPrepare(xpointer)
       IN  IF prep.error # "none"
           THEN /\ selPhase' = "threw"
                /\ selResult' = SelError(prep.error, 0, 0, 0, <<>>)
           ELSE /\ selPhase' = "scanning"
                /\ selResult' = selResult
    /\ UNCHANGED <<xpointer, xmlSource, selParser, sel, resVars>>

SelectFeed(tok) ==
    /\ selPhase = "scanning"
    /\ ~ParserRejects(selParser, tok)
    /\ FitsIn(MaxTokens, xmlSource, selParser, tok) \/ BeginsSample(xmlSource, tok)
    /\ LET prep == selPrepare(xpointer)
           text == Append(xmlSource, tok)
           fed == selFeed(selParser, sel, tok, text, prep.scheme, prep.targetId)
       IN  /\ xmlSource' = text
           /\ selParser' = fed.parser
           /\ sel' = fed.s
           /\ IF fed.s.error # "none"
              THEN /\ selPhase' = "threw"
                   /\ selResult' = SelError(fed.s.error, 0, 0, 0, <<>>)
              ELSE UNCHANGED <<selPhase, selResult>>
    /\ UNCHANGED <<xpointer, resVars>>

\* The parser reads an open tag (or an empty-element tag): opentag handler.
SelectOpenTag == \E tok \in SelOpenToks : SelectFeed(tok)

\* The parser reads character data: no handler is registered for it.
SelectText == SelectFeed(TextTok("t"))

\* The parser reads the close tag of the innermost open element: closetag handler.
SelectCloseTag ==
    /\ selParser.tags # <<>>
    /\ LET top == selParser.tags[Len(selParser.tags)]
       IN  SelectFeed(CloseTok(top[1], top[2]))

\* The parser rejects the text: parser.write or close() throws, and the
\* parser and the closure are dropped with the call.
SelectParseError ==
    /\ selPhase = "scanning"
    /\ Len(xmlSource) < MaxTokens \/ ParserRejectsEnd(selParser)
    /\ selPhase' = "threw"
    /\ selResult' = SelError("parse error", 0, 0, 0, <<>>)
    /\ xmlSource' = <<>>
    /\ selParser' = NewParser
    /\ sel' = NewSelection
    /\ UNCHANGED <<xpointer, resVars>>

\* close() succeeds: lines 187-225.
SelectEnd ==
    /\ selPhase = "scanning"
    /\ ~ParserRejectsEnd(selParser)
    /\ LET prep == selPrepare(xpointer)
           res == selReturn(sel, xmlSource, prep.scheme, prep.targetId)
       IN  /\ selResult' = res
           /\ selPhase' = IF res.ok THEN "returned" ELSE "threw"
    /\ UNCHANGED <<xpointer, xmlSource, selParser, sel, resVars>>

SelNext ==
    \/ SelectBegin
    \/ SelectOpenTag
    \/ SelectText
    \/ SelectCloseTag
    \/ SelectParseError
    \/ SelectEnd

SpecSel == SelInit /\ [][SelNext]_vars

(***************************************************************************)
(* The resolver as a state machine: one top-level call of                  *)
(* resolveXIncludes(text, 0, uri), the promises it spawns and the nested   *)
(* calls they make.  Each action is one run-to-completion step of the      *)
(* event loop.                                                             *)
(***************************************************************************)
SelectorIdle ==
    /\ xpointer = NoXPointer
    /\ xmlSource = <<>>
    /\ selParser = NewParser
    /\ sel = NewSelection
    /\ selPhase = "idle"
    /\ selResult = Pending

Init ==
    /\ config \in Configs
    /\ invs = <<>>
    /\ tasks = <<>>
    /\ advisories = <<>>
    /\ acquisitions = <<>>
    /\ settled = <<>>
    /\ SelectorIdle

\* A recursive call made at the caller's own depth.
nestedDepthUnchanged(depth) == depth

\* The depth argument of the recursive calls of lines 346 and 356.
nestedDepth(depth) == depth + 1

\* The state after resolveXIncludes(text, depth, baseUri) ran to its first
\* await, called by promise caller.
Call(text, depth, baseUri, caller, tasksNow) ==
    \E r \in {Invocation(text, Len(invs) + 1, depth, baseUri, caller, config, Len(tasks) + 1)} :
        /\ invs' = Append(invs, r.inv)
        /\ tasks' = tasksNow \o r.spawned
        /\ acquisitions' = acquisitions \o r.acquired
        /\ advisories' = advisories \o r.advised

\* The caller's resolveXIncludes(document.getText(), 0, document.uri).
ResolveTop ==
    /\ invs = <<>>
    /\ \E doc \in TopDocs : Call(doc, 0, TopUri, 0, tasks)
    /\ UNCHANGED <<config, settled, selVars>>

Settle(t, outcome, failed) ==
    /\ tasks' = [tasks EXCEPT ![t].phase = outcome.phase, ![t].value = outcome.value,
                              ![t].failed = failed]
    /\ settled' = Append(settled, t)

\* fetch / openTextDocument delivers the resource: lines 341-347 and 351-357.
AcquireOk(t) ==
    /\ tasks[t].phase = "acquiring"
    /\ tasks[t].hrefURL \in DOMAIN Store
    /\ LET task == tasks[t]
           text == stripXmlDecl(Store[task.hrefURL])
           narrowed == IF task.xpointer # NoXPointer
                       THEN selectXPointerFragment(text, task.xpointer)
                       ELSE SelOk(text)
       IN  IF narrowed.ok
           THEN /\ Call(narrowed.fragment, nestedDepth(task.depth), task.hrefURL, t,
                        [tasks EXCEPT ![t].phase = "resolving", ![t].child = Len(invs) + 1])
                /\ UNCHANGED settled
           ELSE /\ Settle(t, catchErr(narrowed, invs[task.inv].parserPosition, task.col), TRUE)
                /\ UNCHANGED <<invs, acquisitions, advisories>>
    /\ UNCHANGED <<config, selVars>>

\* fetch rejects or answers with a non-success status, or openTextDocument
\* rejects: handleErr.
AcquireFail(t) ==
    /\ tasks[t].phase = "acquiring"
    /\ Settle(t, catchErr(Err("acquisition failed"), invs[tasks[t].inv].parserPosition,
                        tasks[t].col),
              TRUE)
    /\ UNCHANGED <<config, invs, acquisitions, advisories, selVars>>

\* The nested call's promise settles: .then(makePI) or .catch(handleErr).
NestedDone(t) ==
    /\ tasks[t].phase = "resolving"
    /\ invs[tasks[t].child].status \in {"returned", "rejected"}
    /\ LET task == tasks[t]
           nested == invs[task.child]
       IN  IF nested.status = "returned"
           THEN Settle(t, [phase |-> "settled",
                           value |-> makePI(nested.result, task.depth, task.hrefURL,
                                            task.line, task.col)], FALSE)
           ELSE Settle(t, catchErr(Err("parse error"), invs[task.inv].parserPosition, task.col), TRUE)
    /\ UNCHANGED <<config, invs, acquisitions, advisories, selVars>>

\* Lines 395-396: Promise.all resolves and the parts are joined.
Join(i) ==
    /\ invs[i].status = "awaiting"
    /\ AllSettled(i) \/ AnyRejected(i)
    /\ invs' = IF AnyRejected(i)
               THEN [invs EXCEPT ![i].status = "rejected"]
               ELSE [invs EXCEPT ![i].status = "returned", ![i].result = joinAll(promiseAll(i))]
    /\ UNCHANGED <<config, tasks, acquisitions, advisories, settled, selVars>>

Acquired == \E t \in DOMAIN tasks : AcquireOk(t)
AcquisitionFailed == \E t \in DOMAIN tasks : AcquireFail(t)
NestedResolved == \E t \in DOMAIN tasks : NestedDone(t)
Joined == \E i \in DOMAIN invs : Join(i)

Next ==
    \/ ResolveTop
    \/ Acquired
    \/ AcquisitionFailed
    \/ NestedResolved
    \/ Joined

Spec == Init /\ [][Next]_vars

\* The same steps when the caller makes its call, every acquisition that was
\* started completes (with the resource or with a failure), and the event
\* loop runs every continuation that is ready.
SpecLive ==
    /\ Init /\ [][Next]_vars
    /\ WF_vars(ResolveTop)
    /\ WF_vars(Acquired \/ AcquisitionFailed)
    /\ WF_vars(NestedResolved)
    /\ WF_vars(Joined)

\* The model follows one change of the settings per resolution: until it,
\* they are as the top-level call found them.
SettingsAsAtTopCall == IF invs = <<>> THEN TRUE ELSE invs[1].cfg = config

\* The user or another extension edits the "sxml" settings.  The resolver
\* holds no copy: lines 266 and 290 ask workspace.getConfiguration again at
\* every directive, so a nested call reads the settings of its own moment.
ConfigurationChanged ==
    /\ SettingsAsAtTopCall
    /\ config' \in Configs \ {config}
    /\ UNCHANGED <<invs, tasks, advisories, acquisitions, settled, selVars>>

NextReconfig ==
    \/ ResolveTop
    \/ Acquired
    \/ AcquisitionFailed
    \/ NestedResolved
    \/ Joined
    \/ ConfigurationChanged

\* The resolver in a workspace whose settings can change while it runs.
SpecReconfig == Init /\ [][NextReconfig]_vars

(***************************************************************************)
(* The element structure of a complete well-formed text, read off the text *)
(* itself: the reference the selector's results are compared with.         *)
(***************************************************************************)
\* The close tag that brings the nesting opened before token j back to zero;
\* 0 when the text ends before it.
RECURSIVE CloseOf(_, _, _)
CloseOf(text, j, open) ==
    IF j > Len(text) THEN 0
    ELSE IF text[j].k = "open" /\ ~text[j].isSelfClosing THEN CloseOf(text, j + 1, open + 1)
    ELSE IF text[j].k = "close" THEN
        IF open = 1 THEN j ELSE CloseOf(text, j + 1, open - 1)
    ELSE CloseOf(text, j + 1, open)

Elements(text) == {i \in 1..Len(text) : text[i].k = "open"}
\* The last token of the element whose open tag is token i.
ElementEnd(text, i) == IF text[i].isSelfClosing THEN i ELSE CloseOf(text, i + 1, 1)
ElementText(text, i) == SubSeq(text, i, ElementEnd(text, i))
SetMax(X) == CHOOSE x \in X : \A y \in X : y <= x
SetMin(X) == CHOOSE x \in X : \A y \in X : x <= y
\* The element that directly contains element c; 0 is the document itself.
ParentOf(text, c) ==
    LET anc == {q \in Elements(text) : q < c /\ c <= ElementEnd(text, q)}
    IN  IF anc = {} THEN 0 ELSE SetMax(anc)
ChildrenOf(text, q) == {c \in Elements(text) : ParentOf(text, c) = q}
\* The n-th child element of q, or -1.
NthChild(text, q, n) ==
    LET hit == {c \in ChildrenOf(text, q) :
                    Cardinality({d \in ChildrenOf(text, q) : d < c}) = n - 1}
    IN  IF hit = {} THEN -1 ELSE SetMin(hit)
\* The element reached from q by the steps, or -1.
RECURSIVE Descend(_, _, _)
Descend(text, q, steps) ==
    IF steps = <<>> THEN q
    ELSE LET c == NthChild(text, q, Head(steps))
         IN  IF c = -1 THEN -1 ELSE Descend(text, c, Tail(steps))
\* The smallest step index at which the descent from q leaves the tree.
FailingStep(text, q, steps) ==
    SetMin({i \in 1..Len(steps) : Descend(text, q, SubSeq(steps, 1, i)) = -1})
AvailableAt(text, q, steps, i) ==
    Cardinality(ChildrenOf(text, Descend(text, q, SubSeq(steps, 1, i - 1))))
\* The element carries an xml:id, an xml-prefixed id or an unprefixed id equal to x.
CarriesId(tok, x) ==
    \E q \in DOMAIN tok.attrs :
        /\ tok.attrs[q].local = "id"
        /\ tok.attrs[q].prefix \in {"xml", ""} \/ tok.attrs[q].uri = XML_NS
        /\ tok.attrs[q].value = S(x)
WithId(text, x) == {i \in Elements(text) : CarriesId(text[i], x)}

\* The call ran its scan to the end of a well-formed text.
SelEnded == selPhase \in {"returned", "threw"} /\ selResult.kind \notin {"parse error", "pending"}
     /\ xmlSource # <<>>

\* C8: for id('X') or a bare X the selector returns the exact source text of the
\* first element in document order that carries an xml:id, xml-prefixed id or
\* unprefixed id equal to X, whatever elements with the same id follow, and
\* nothing outside that element; with no such element it fails.
C8_FirstIdMatch ==
    \A x \in {"a", "b"} :
        (SelEnded /\ xpointer \in {XPtr(w, f, S(x)) : w \in BOOLEAN, f \in {"id", "bare"}})
            => IF WithId(xmlSource, x) # {}
               THEN /\ selPhase = "returned"
                    /\ selResult.fragment = ElementText(xmlSource, SetMin(WithId(xmlSource, x)))
               ELSE selPhase = "threw" /\ selResult.kind = "target not found"

\* Two elements carry the id, an element without it precedes them, and the call returned.
C8_Witness ==
    /\ SelEnded /\ selPhase = "returned" /\ xpointer = XPtr(FALSE, "id", S("a"))
    /\ Cardinality(WithId(xmlSource, "a")) >= 2
    /\ SetMin(WithId(xmlSource, "a")) > 2
    /\ Len(selResult.fragment) < Len(xmlSource) - 2

\* C9: element(s1/.../sk) on a well-formed text returns the element whose path
\* of 1-based sibling indices from the document root is (s1,...,sk) when it
\* exists; otherwise the failure names the smallest step whose ordinal exceeds
\* the child elements available at that level, with that true count.
C9_PositionalPath ==
    \A st \in PositionalSteps :
        (SelEnded /\ xpointer = Positional(st))
            => IF Descend(xmlSource, 0, st) # -1
               THEN /\ selPhase = "returned"
                    /\ selResult.fragment = ElementText(xmlSource, Descend(xmlSource, 0, st))
               ELSE /\ selPhase = "threw"
                    /\ selResult.kind = "step out of range"
                    /\ selResult.step = FailingStep(xmlSource, 0, st)
                    /\ selResult.requested = st[FailingStep(xmlSource, 0, st)]
                    /\ selResult.available =
                            AvailableAt(xmlSource, 0, st, FailingStep(xmlSource, 0, st))

\* element(1/3) against a first element with two children: step 2, 2 available.
C9_Witness ==
    /\ SelEnded /\ selPhase = "threw" /\ xpointer = Positional(<<1, 3>>)
    /\ Cardinality(ChildrenOf(xmlSource, 1)) = 2
    /\ selResult.step = 2 /\ selResult.available = 2

\* C10: element(ID/s1/.../sk) fixes the anchor as the first element in document
\* order with id ID and returns the element reached by the steps from it (the
\* anchor itself without steps); with no anchor the failure is "target not
\* found" naming ID; with an anchor and a step beyond the available children
\* the failure cites that step as out of range after anchor ID.
C10_AnchoredPath ==
    \A x \in {"a", "b"} : \A st \in AnchoredSteps :
        (SelEnded /\ xpointer = Anchored(x, st))
            => IF WithId(xmlSource, x) = {}
               THEN /\ selPhase = "threw"
                    /\ selResult.kind = "target not found"
                    /\ selResult.name = S(x)
               ELSE LET anchor == SetMin(WithId(xmlSource, x))
                    IN  IF Descend(xmlSource, anchor, st) # -1
                        THEN /\ selPhase = "returned"
                             /\ selResult.fragment =
                                    ElementText(xmlSource, Descend(xmlSource, anchor, st))
                        ELSE /\ selPhase = "threw"
                             /\ selResult.kind = "step out of range"
                             /\ selResult.name = S(x)
                             /\ selResult.step = FailingStep(xmlSource, anchor, st)
                             /\ selResult.available =
                                    AvailableAt(xmlSource, anchor, st,
                                                FailingStep(xmlSource, anchor, st))

\* The anchor is not the root, has one child, and element(a/2) fails at step 1.
C10_Witness ==
    /\ SelEnded /\ selPhase = "threw" /\ xpointer = Anchored("a", <<2>>)
    /\ WithId(xmlSource, "a") # {}
    /\ SetMin(WithId(xmlSource, "a")) > 1
    /\ selResult.kind = "step out of range" /\ selResult.step = 1
    /\ selResult.available = 1 /\ selResult.name = S("a")

(***************************************************************************)
(* The resolver's claims.  What a call was given is read from its text,    *)
(* independently of the handlers: the inclusion elements of the text, the  *)
(* line and column of each, and what the call has started.                 *)
(***************************************************************************)
Directives(text) ==
    {j \in 1..Len(text) :
        text[j].k = "open" /\ text[j].uri = XINCLUDE_NS /\ text[j].local = "include"}

\* The directives the parser reached before the scan ended.
ScannedDirectives(i) == {j \in Directives(invs[i].xmlSource) : j <= invs[i].position}

LineOf(text, j) == 1 + Cardinality({m \in 1..j : text[m] = NL})
ColOf(text, j) == j - SetMax({0} \cup {m \in 1..j : text[m] = NL})

TasksOf(i) == {t \in DOMAIN tasks : tasks[t].inv = i}
AcquisitionsOf(i) == {n \in DOMAIN acquisitions : acquisitions[n].inv = i}
AdvisoriesOf(i) == {n \in DOMAIN advisories : advisories[n].inv = i}
NestedCallsOf(i) == {c \in DOMAIN invs : invs[c].caller \in TasksOf(i)}

\* The scan threw and the call handed its input back.
EarlyReturn(i) ==
    invs[i].threw /\ (invs[i].depth > 0 \/ ScannedDirectives(i) = {})

\* The call went through Promise.all and returned the joined parts.
Assembled(i) == invs[i].status = "returned" /\ ~EarlyReturn(i)

PromiseParts(i) ==
    {n \in 1..Len(invs[i].outputParts) : invs[i].outputParts[n].k = "promise"}

Kth(X, k) == CHOOSE x \in X : Cardinality({y \in X : y <= x}) = k

\* The directives of call i that lines 308-361 turn into a promise.
ExpandedDirectives(i) ==
    {j \in ScannedDirectives(i) :
        /\ "href" \in DOMAIN invs[i].xmlSource[j].attrs
        /\ ("parse" \in DOMAIN invs[i].xmlSource[j].attrs
                => invs[i].xmlSource[j].attrs["parse"].value = "xml")}

\* The parts of call i in submission order, each promise read as the value
\* it settled with, concatenated up to part n.
RECURSIVE InSubmissionOrder(_, _)
InSubmissionOrder(i, n) ==
    IF n = 0 THEN <<>>
    ELSE InSubmissionOrder(i, n - 1)
            \o (IF invs[i].outputParts[n].k = "promise"
                THEN tasks[invs[i].outputParts[n].task].value
                ELSE invs[i].outputParts[n].text)

SettledBefore(a, b) ==
    \E m, n \in DOMAIN settled : m < n /\ settled[m] = a /\ settled[n] = b

\* C1: whatever the order in which the directives' promises settle, the
\* returned string is the parts in the order they were submitted, and the
\* k-th promise among them belongs to the k-th directive of the source: it
\* carries that directive's line and column.
C1_DocumentOrder ==
    \A i \in DOMAIN invs :
        /\ Assembled(i) =>
              invs[i].result = InSubmissionOrder(i, Len(invs[i].outputParts))
        /\ Cardinality(PromiseParts(i)) <= Cardinality(ExpandedDirectives(i))
        /\ \A k \in 1..Cardinality(PromiseParts(i)) :
              LET t == tasks[invs[i].outputParts[Kth(PromiseParts(i), k)].task]
                  j == Kth(ExpandedDirectives(i), k)
              IN  /\ t.inv = i
                  /\ t.line = LineOf(invs[i].xmlSource, j)
                  /\ t.col = ColOf(invs[i].xmlSource, j)

\* Two sibling directives whose promises settled in the reverse of source
\* order, with different fragments, and the call has returned.
C1_Witness ==
    \E i \in DOMAIN invs :
        /\ Assembled(i)
        /\ \E m, n \in PromiseParts(i) :
              LET a == invs[i].outputParts[m].task
                  b == invs[i].outputParts[n].task
              IN  /\ m < n
                  /\ SettledBefore(b, a)
                  /\ tasks[a].value # tasks[b].value
                  /\ Len(tasks[a].value) > 2 /\ Len(tasks[b].value) > 2

\* C2: a call on a well-formed text with no inclusion element, at any depth
\* and base, starts no promise, no acquisition and no advisory, is ready to
\* return as soon as the scan ends, and returns its input unchanged.
C2_NoIncludeIdentity ==
    \A i \in DOMAIN invs :
        (Directives(invs[i].xmlSource) = {} /\ ~invs[i].threw) =>
            /\ TasksOf(i) = {}
            /\ AcquisitionsOf(i) = {}
            /\ AdvisoriesOf(i) = {}
            /\ NestedCallsOf(i) = {}
            /\ invs[i].status \in {"awaiting", "returned"}
            /\ invs[i].status = "awaiting" => PromiseParts(i) = {}
            /\ invs[i].status = "returned" => invs[i].result = invs[i].xmlSource

\* A top-level call on a text whose only element named "include" is in
\* another namespace has returned it.
C2_Witness ==
    \E i \in DOMAIN invs :
        /\ invs[i].depth = 0
        /\ Directives(invs[i].xmlSource) = {}
        /\ \E j \in 1..Len(invs[i].xmlSource) : invs[i].xmlSource[j].local = "include"
        /\ ~invs[i].threw
        /\ invs[i].status = "returned"
        /\ invs[i].result = invs[i].xmlSource

\* C3: with the limit N of the configuration, a call at depth d expands its
\* directives iff d < N.  Below the limit no advisory is issued and each
\* directive with an href and XML parse mode gets its promise (when support
\* is on).  At the limit each directive reached gets one advisory, the call
\* starts no promise, no acquisition and no nested call, and returns its
\* text unchanged.
C3_DepthLimit ==
    \A i \in DOMAIN invs :
        IF invs[i].depth < depthLimitOf(config)
        THEN /\ AdvisoriesOf(i) = {}
             /\ config.xincludeSupport =>
                    Cardinality(TasksOf(i)) = Cardinality(ExpandedDirectives(i))
        ELSE /\ invs[i].depth = depthLimitOf(config)
             /\ Cardinality(AdvisoriesOf(i)) = Cardinality(ScannedDirectives(i))
             /\ TasksOf(i) = {}
             /\ AcquisitionsOf(i) = {}
             /\ NestedCallsOf(i) = {}
             /\ invs[i].status = "returned" => invs[i].result = invs[i].xmlSource

\* A chain of includes reached the limit: the call at depth N has returned
\* its text with the directive in it after one advisory, and the top-level
\* call has returned too.
C3_Witness ==
    \E i \in DOMAIN invs :
        /\ invs[i].depth = depthLimitOf(config)
        /\ Cardinality(ScannedDirectives(i)) = 1
        /\ Cardinality(AdvisoriesOf(i)) = 1
        /\ invs[i].status = "returned"
        /\ invs[i].result = invs[i].xmlSource
        /\ invs[1].status = "returned"
        /\ Len(invs) = depthLimitOf(config) + 1

\* Whether an inclusion element's tag is among the tokens of a string.
HasDirective(str) == \E n \in 1..Len(str) : str[n].k = "open" /\ n \in Directives(str)

\* The warning markers of a string that carry line and col.
WarningsAt(str, line, col) ==
    {n \in 1..Len(str) :
        /\ str[n].k = "marker" /\ str[n].target = "xml-xi-map-enter"
        /\ str[n].warning # "" /\ str[n].line = line /\ str[n].col = col
        /\ n < Len(str) /\ str[n + 1].k = "marker" /\ str[n + 1].target = "xml-xi-map-leave"}

\* C4: with inclusion support off, no acquisition, promise or nested call is
\* ever started, and in the string a call returns every directive of its
\* text has been replaced by one warning enter/leave pair carrying the
\* directive's line and column: the pair is there and no directive's tag is
\* left.
C4_DisabledReplacesEveryDirective ==
    config.xincludeSupport = FALSE =>
        /\ tasks = <<>>
        /\ acquisitions = <<>>
        /\ Len(invs) <= 1
        /\ \A i \in DOMAIN invs :
              (invs[i].status = "returned" /\ ~invs[i].threw) =>
                  /\ \A j \in Directives(invs[i].xmlSource) :
                        Cardinality(WarningsAt(invs[i].result,
                                               LineOf(invs[i].xmlSource, j),
                                               ColOf(invs[i].xmlSource, j))) = 1
                  /\ ~HasDirective(invs[i].result)

\* The directives of call i whose parse attribute is not "xml".
UnsupportedDirectives(i) ==
    {j \in ScannedDirectives(i) :
        /\ "parse" \in DOMAIN invs[i].xmlSource[j].attrs
        /\ invs[i].xmlSource[j].attrs["parse"].value # "xml"}

\* The string parts of call i that are one error marker for column col.
ParseErrorParts(i, col) ==
    {n \in 1..Len(invs[i].outputParts) :
        LET part == invs[i].outputParts[n]
        IN  /\ part.k = "string"
            /\ Len(part.text) = 1
            /\ part.text[1].k = "marker"
            /\ part.text[1].target = "xml-xi-error"
            /\ part.text[1].err.kind = "Unsupported XInclude parse value"
            /\ part.text[1].col = col}

\* The resource a promise's nested call is given: a function of the
\* directive's own href and xpointer.
OwnResource(t) ==
    LET text == stripXmlDecl(Store[tasks[t].hrefURL])
    IN  IF tasks[t].xpointer # NoXPointer
        THEN selectXPointerFragment(text, tasks[t].xpointer).fragment
        ELSE text

\* C5: no promise of a directive and no call is ever rejected.  A directive
\* that failed settles with exactly one xml-xi-error marker carrying its
\* column; every other directive settles with its own resource's resolved
\* text between an enter and a leave marker, whatever happened to its
\* siblings; a directive with an unsupported parse mode puts exactly one
\* error marker among the parts; and the call returns all these values at
\* the directives' places.
C5_FailureContained ==
    \A i \in DOMAIN invs :
        /\ invs[i].status # "rejected"
        /\ (config.xincludeSupport /\ invs[i].depth < depthLimitOf(config)) =>
              \A j \in UnsupportedDirectives(i) :
                  Cardinality(ParseErrorParts(i, ColOf(invs[i].xmlSource, j))) = 1
        /\ \A t \in TasksOf(i) :
              /\ tasks[t].phase # "rejected"
              /\ tasks[t].phase = "settled" =>
                    IF tasks[t].failed
                    THEN /\ Len(tasks[t].value) = 1
                         /\ tasks[t].value[1].target = "xml-xi-error"
                         /\ tasks[t].value[1].col = tasks[t].col
                    ELSE LET c == invs[tasks[t].child]
                             v == tasks[t].value
                         IN  /\ c.status = "returned"
                             /\ c.xmlSource = OwnResource(t)
                             /\ c.depth = invs[i].depth + 1
                             /\ Len(v) = Len(c.result) + 2
                             /\ v[1].k = "marker" /\ v[1].uri = tasks[t].hrefURL
                             /\ v[1].target \in {"xml-xi-map-enter", "xml-xi-nested-enter"}
                             /\ SubSeq(v, 2, Len(v) - 1) = c.result
                             /\ v[Len(v)].k = "marker"
                             /\ v[Len(v)].target \in {"xml-xi-map-leave", "xml-xi-nested-leave"}
        /\ Assembled(i) =>
              invs[i].result = InSubmissionOrder(i, Len(invs[i].outputParts))

\* A call has returned with one directive of an unsupported parse mode, one
\* whose promise failed and a sibling expanded.
C5_Witness ==
    \E i \in DOMAIN invs :
        /\ invs[i].status = "returned"
        /\ UnsupportedDirectives(i) # {}
        /\ \E a, b \in TasksOf(i) :
              /\ tasks[a].failed /\ tasks[a].phase = "settled"
              /\ ~tasks[b].failed /\ tasks[b].phase = "settled"
              /\ \E n \in 1..Len(invs[i].result) : invs[i].result[n] = tasks[a].value[1]
              /\ \E n \in 1..Len(invs[i].result) : invs[i].result[n] = tasks[b].value[1]

\* C6: a call whose scan threw at depth > 0, or before any inclusion element
\* was reached, has returned, and what it returned is its input.
C6_ScanFailureReturnsInput ==
    \A i \in DOMAIN invs :
        (invs[i].threw /\ (invs[i].depth > 0 \/ ScannedDirectives(i) = {})) =>
            /\ invs[i].status = "returned"
            /\ invs[i].result = invs[i].xmlSource

\* A nested call threw after reaching a directive and starting its promise,
\* and returned its input; its caller went on to return.
C6_Witness ==
    \E i \in DOMAIN invs :
        /\ invs[i].depth > 0
        /\ invs[i].threw
        /\ ScannedDirectives(i) # {}
        /\ TasksOf(i) # {}
        /\ invs[i].outputParts # <<>>
        /\ invs[i].status = "returned"
        /\ invs[i].result = invs[i].xmlSource
        /\ invs[1].status = "returned"

\* C7: a top-level call whose scan threw after an inclusion element was
\* reached never returns a string: its promise is rejected and the parts
\* assembled so far are discarded.
C7_TopLevelFailureRejects ==
    \A i \in DOMAIN invs :
        (invs[i].depth = 0 /\ invs[i].threw /\ ScannedDirectives(i) # {}) =>
            invs[i].status # "returned"

\* The expression is empty once trimmed.
EmptyExpression(xp) ==
    xp.form = "bare" /\ \A n \in 1..Len(xp.body) : xp.body[n].t = "sp"

\* element( ) with nothing, only blanks or only slashes between the parentheses.
EmptyElementBody(xp) ==
    xp.form = "element" /\ \A n \in 1..Len(xp.body) : xp.body[n].t \in {"sp", "slash"}

\* The pieces between the slashes of element(...), and those that are steps:
\* all of them when the first is a positive integer, all but the first
\* otherwise.
BodyTokens(xp) == FilterNonEmpty(SplitSlash(Trim(xp.body), <<>>))
PositiveInteger(token) == Len(token) = 1 /\ token[1].t = "int" /\ token[1].v > 0
StepTokens(xp) ==
    IF PositiveInteger(BodyTokens(xp)[1]) THEN BodyTokens(xp) ELSE Tail(BodyTokens(xp))
InvalidStep(xp) ==
    /\ xp.form = "element" /\ ~EmptyElementBody(xp)
    /\ \E n \in 1..Len(StepTokens(xp)) : ~PositiveInteger(StepTokens(xp)[n])

\* C11: once the call has begun, an empty expression or an element() with
\* an empty body has failed as an empty xpointer, and an element() with a
\* step that is not a positive integer has failed as an invalid step; no
\* token of the text was read.
C11_DegeneratePointerFailsBeforeScan ==
    selPhase # "idle" =>
        /\ (EmptyExpression(xpointer) \/ EmptyElementBody(xpointer)) =>
              /\ selPhase = "threw"
              /\ selResult.kind \in {"Empty xpointer target.", "Empty element() XPointer."}
              /\ xmlSource = <<>>
        /\ InvalidStep(xpointer) =>
              /\ selPhase = "threw"
              /\ selResult.kind = "Invalid element() step"
              /\ xmlSource = <<>>

\* The leave marker that closes an enter marker.
LeaveOf(enter) ==
    IF enter = "xml-xi-map-enter" THEN "xml-xi-map-leave" ELSE "xml-xi-nested-leave"

\* Whether the enter and leave markers of str from piece n on are balanced
\* and properly nested, open being the enter markers not yet closed.
RECURSIVE Balanced(_, _, _)
Balanced(str, n, open) ==
    IF n > Len(str) THEN open = <<>>
    ELSE IF str[n].k # "marker" \/ str[n].target = "xml-xi-error" THEN Balanced(str, n + 1, open)
    ELSE IF str[n].target \in {"xml-xi-map-enter", "xml-xi-nested-enter"}
    THEN Balanced(str, n + 1, Append(open, str[n].target))
    ELSE /\ open # <<>>
         /\ str[n].target = LeaveOf(open[Len(open)])
         /\ Balanced(str, n + 1, SubSeq(open, 1, Len(open) - 1))

\* The markers among the pieces of a string.
MarkersIn(str) == {n \in 1..Len(str) : str[n].k = "marker"}

\* C12: the promise of a directive with an href is one part of its call and,
\* once settled, has one of three shapes.  At depth 0: a map-enter marker
\* with the resolved location and the directive's line and column, the
\* nested call's result, a map-leave marker.  At depth > 0: a nested-enter
\* marker with the resolved location only, the result, a nested-leave
\* marker.  On failure: one error marker and nothing else.  In every
\* returned string the enter and leave markers are balanced and properly
\* nested.
C12_FragmentShapes ==
    \A i \in DOMAIN invs :
        /\ invs[i].status = "returned" => Balanced(invs[i].result, 1, <<>>)
        /\ \A k \in 1..Cardinality(TasksOf(i)) :
              LET t == Kth(TasksOf(i), k)
                  j == Kth(ExpandedDirectives(i), k)
                  v == tasks[t].value
              IN  /\ Cardinality({n \in PromiseParts(i) : invs[i].outputParts[n].task = t}) = 1
                  /\ tasks[t].phase = "settled" =>
                        IF tasks[t].failed
                        THEN /\ Len(v) = 1
                             /\ v[1].k = "marker" /\ v[1].target = "xml-xi-error"
                        ELSE /\ Len(v) >= 2
                             /\ SubSeq(v, 2, Len(v) - 1) = invs[tasks[t].child].result
                             /\ v[1].k = "marker" /\ v[Len(v)].k = "marker"
                             /\ v[1].uri = tasks[t].hrefURL
                             /\ IF invs[i].depth = 0
                                THEN /\ v[1].target = "xml-xi-map-enter"
                                     /\ v[1].line = LineOf(invs[i].xmlSource, j)
                                     /\ v[1].col = ColOf(invs[i].xmlSource, j)
                                     /\ v[Len(v)].target = "xml-xi-map-leave"
                                ELSE /\ v[1].target = "xml-xi-nested-enter"
                                     /\ v[1].line = 0 /\ v[1].col = 0
                                     /\ v[Len(v)].target = "xml-xi-nested-leave"

\* The top-level call has returned a string with a map pair around a nested
\* pair and an error marker beside them.
C12_Witness ==
    /\ invs # <<>>
    /\ invs[1].status = "returned"
    /\ \E a, b, c, d, e \in MarkersIn(invs[1].result) :
          /\ a < b /\ b < c /\ c < d /\ d < e
          /\ invs[1].result[a].target = "xml-xi-map-enter"
          /\ invs[1].result[b].target = "xml-xi-nested-enter"
          /\ invs[1].result[c].target = "xml-xi-nested-leave"
          /\ invs[1].result[d].target = "xml-xi-map-leave"
          /\ invs[1].result[e].target = "xml-xi-error"

\* The href of directive j of call i, and the directive behind the k-th
\* promise of call i.
HrefOf(i, j) == invs[i].xmlSource[j].attrs["href"].value
DirectiveOf(i, t) == Kth(ExpandedDirectives(i), Cardinality({u \in TasksOf(i) : u <= t}))

\* An href with every character above U+007F percent-encoded and every
\* other character as it was.
Encoded(h) ==
    [n \in 1..Len(h) |-> IF h[n].t = "uni" THEN [t |-> "pct", v |-> h[n].v] ELSE h[n]]
IsAbsolute(h) == h # <<>> /\ h[1].t = "scheme"
IsParsable(h) == \A n \in 1..Len(h) : h[n].t # "unparsable"
\* The location of the document that holds the directives of call i.
ContainingDocument(i) == IF invs[i].depth = 0 THEN TopUri ELSE tasks[invs[i].caller].hrefURL
\* A reference read against a location: the location's directory, or only
\* its scheme when the reference is an absolute path, then the reference.
Against(ref, loc) ==
    IF ref # <<>> /\ ref[1].t = "dir" THEN <<loc[1]>> \o ref ELSE <<loc[1], loc[2]>> \o ref
UsesLegacy(url) == url # <<>> /\ url[1].t = "legacy"

\* C13 as stated: the resolved location of a directive is its href with the
\* characters above ASCII percent-encoded and the ASCII ones untouched; that
\* text itself when it is an absolute URL, that text against the location of
\* the directive's own document when it is relative, and the legacy
\* normalization only when neither can be done.
C13_HrefResolvesToItself ==
    \A i \in DOMAIN invs : \A t \in TasksOf(i) :
        LET h == HrefOf(i, DirectiveOf(i, t))
        IN  /\ invs[i].baseUri = ContainingDocument(i)
            /\ IF IsAbsolute(h) /\ IsParsable(h) THEN tasks[t].hrefURL = Encoded(h)
               ELSE IF IsParsable(h)
               THEN tasks[t].hrefURL = Against(Encoded(h), ContainingDocument(i))
               ELSE UsesLegacy(tasks[t].hrefURL)

\* The serialization of a URL: scheme in lower case, blanks percent-encoded.
InNormalForm(u) ==
    \A n \in 1..Len(u) : u[n].t # "sp" /\ (u[n].t = "scheme" => u[n].v \in {"file", "http", "https"})
Serialized(u) ==
    [n \in 1..Len(u) |->
        IF u[n].t = "scheme" /\ u[n].v = "HTTP" THEN [t |-> "scheme", v |-> "http"]
        ELSE IF u[n].t = "sp" THEN [t |-> "pct", v |-> "20"]
        ELSE u[n]]

\* C13 as amended: the href is first percent-encoded above ASCII only.  An
\* absolute href resolves to the serialization of that URL, which is the
\* encoded href itself when it is in normal form, whatever the base.  A
\* relative href resolves, serialized, against the location of the
\* directive's own document: in a nested call the resolved location of the
\* included resource.  The legacy normalization is used exactly when neither
\* can be done.
C13_HrefResolution ==
    \A i \in DOMAIN invs : \A t \in TasksOf(i) :
        LET h == HrefOf(i, DirectiveOf(i, t))
            url == tasks[t].hrefURL
        IN  /\ invs[i].baseUri = ContainingDocument(i)
            /\ \A n \in 1..Len(url) : url[n].t # "uni"
            /\ UsesLegacy(url) <=> ~IsParsable(h)
            /\ (IsAbsolute(h) /\ IsParsable(h)) =>
                  /\ url = Serialized(Encoded(h))
                  /\ InNormalForm(Encoded(h)) => url = Encoded(h)
            /\ (~IsAbsolute(h) /\ IsParsable(h)) =>
                  url = Against(Serialized(Encoded(h)), ContainingDocument(i))

\* A top-level call at /d1/ with an absolute href in upper case and a
\* non-ASCII file name; the resource it included from /d2/ has had its own
\* relative href resolved to /d2/, and that resource was acquired.
C13_Witness ==
    \E a, b, c, d \in DOMAIN tasks :
        /\ tasks[a].inv = 1 /\ tasks[a].hrefURL = HttpUrl("leaf.xml")
        /\ tasks[b].inv = 1 /\ tasks[b].hrefURL = AccentedUrl
        /\ tasks[b].phase = "settled" /\ ~tasks[b].failed
        /\ tasks[c].inv = 1 /\ UsesLegacy(tasks[c].hrefURL)
        /\ invs[tasks[d].inv].depth = 1
        /\ tasks[d].hrefURL = OtherDirUrl("leaf.xml")
        /\ tasks[d].phase = "settled" /\ ~tasks[d].failed
        /\ invs[tasks[d].child].xmlSource = stripXmlDecl(OtherLeafDoc)

\* Whether token n of text lies in an inclusion element: its tags or its subtree.
InDirective(text, n) ==
    \E j \in Directives(text) : j <= n /\ n <= ElementEnd(text, j)

\* The tokens of text outside its inclusion elements, in order, from token n on.
RECURSIVE OutsideDirectives(_, _)
OutsideDirectives(text, n) ==
    IF n > Len(text) THEN <<>>
    ELSE IF InDirective(text, n) THEN OutsideDirectives(text, n + 1)
    ELSE <<text[n]>> \o OutsideDirectives(text, n + 1)

\* The literal text a call submitted: its string parts without the markers
\* it generated, in submission order, up to part n.
RECURSIVE LiteralParts(_, _)
LiteralParts(i, n) ==
    IF n = 0 THEN <<>>
    ELSE LiteralParts(i, n - 1)
            \o (IF invs[i].outputParts[n].k = "string"
                THEN SelectSeq(invs[i].outputParts[n].text, LAMBDA x : x.k # "marker")
                ELSE <<>>)

\* C14: a call on a well-formed text below the depth limit submits as
\* literal text exactly the source outside its inclusion elements, each
\* piece once and in source order; nothing of an inclusion element's tags or
\* subtree is literal text, whether the element is self-closing or has a
\* close tag, and at any depth.
C14_WholeElementReplaced ==
    \A i \in DOMAIN invs :
        (~invs[i].threw /\ invs[i].depth < depthLimitOf(config)) =>
            LiteralParts(i, Len(invs[i].outputParts)) = OutsideDirectives(invs[i].xmlSource, 1)

\* C15: the error marker a failed promise settled with carries the position
\* of its own directive: parent-start is the offset the scan had reached
\* when it detected the directive (just after its open tag) and parent-col
\* the column there, whatever follows the directive in the text.
C15_ErrorMarkerPosition ==
    \A i \in DOMAIN invs : \A t \in TasksOf(i) :
        (tasks[t].phase = "settled" /\ tasks[t].failed) =>
            /\ tasks[t].value[1].start = DirectiveOf(i, t)
            /\ tasks[t].value[1].col = ColOf(invs[i].xmlSource, DirectiveOf(i, t))

\* The promises a call is expected to create during its scan.
ExpectedPromises(i) ==
    IF config.xincludeSupport /\ invs[i].depth < depthLimitOf(config)
    THEN Cardinality(ExpandedDirectives(i))
    ELSE 0

\* C16: the step in which a call scans its text starts the acquisition of
\* every directive with an href, before any of them has completed: after
\* that step each of the call's directives has its acquisition in flight,
\* and no later step starts an acquisition for that call.  The call returns
\* joined parts only once every promise has settled.
C16_FanOutDuringScan ==
    [][\A i \in DOMAIN invs' :
          /\ i \notin DOMAIN invs =>
                /\ Cardinality(AcquisitionsOf(i))' = ExpectedPromises(i)'
                /\ Cardinality(TasksOf(i))' = ExpectedPromises(i)'
                /\ \A t \in TasksOf(i)' : tasks'[t].phase = "acquiring"
          /\ i \in DOMAIN invs =>
                /\ AcquisitionsOf(i)' = AcquisitionsOf(i)
                /\ TasksOf(i)' = TasksOf(i)
                /\ (invs[i].status = "awaiting" /\ invs'[i].status = "returned") =>
                      \A t \in TasksOf(i) : tasks[t].phase = "settled"]_vars

\* A later sibling's promise has settled with its fragment while an earlier
\* sibling's acquisition is still in flight.
C16_Witness ==
    \E a, b \in DOMAIN tasks :
        /\ a < b
        /\ tasks[a].inv = tasks[b].inv
        /\ tasks[a].phase = "acquiring"
        /\ tasks[b].phase = "settled" /\ ~tasks[b].failed
        /\ Cardinality(AcquisitionsOf(tasks[a].inv)) >= 2

\* C17: every nested call runs one level deeper than the call whose
\* directive started it, no promise is ever created at a depth at or beyond
\* the limit and no call runs deeper than the limit; and the top-level call
\* eventually returns a string, whatever the resources include.
C17_DepthBoundedTermination ==
    /\ [](\A i \in DOMAIN invs :
            /\ invs[i].depth <= depthLimitOf(config)
            /\ invs[i].caller # 0 => invs[i].depth = invs[tasks[invs[i].caller].inv].depth + 1
            /\ \A t \in TasksOf(i) :
                  tasks[t].depth = invs[i].depth /\ tasks[t].depth < depthLimitOf(config))
    /\ <>(invs # <<>> /\ invs[1].status = "returned")

\* The top-level call on a cycle of two resources has returned, after calls
\* at every depth up to the limit, each on the other resource of the cycle.
C17_Witness ==
    /\ invs # <<>>
    /\ invs[1].xmlSource = CycleDocA
    /\ invs[1].status = "returned"
    /\ Len(invs) = depthLimitOf(config) + 1
    /\ \A i \in DOMAIN invs :
          /\ invs[i].depth = i - 1
          /\ invs[i].xmlSource = (IF i % 2 = 1 THEN CycleDocA ELSE CycleDocB)
    /\ \A t \in DOMAIN tasks : tasks[t].phase = "settled" /\ ~tasks[t].failed

(***************************************************************************)
(* Resolution context.                                                     *)
(***************************************************************************)
\* The invocations made on behalf of the top-level call that saw a directive,
\* i.e. that consulted the settings.
Consulted == {i \in DOMAIN invs : invs[i].foundXi}

\* C18: every directive processed on behalf of one top-level resolution, at
\* every recursion depth, is decided under the same depth limit and the same
\* enabled flag, also when the settings change while acquisitions of the
\* resolution are in flight.
C18_ContextFixedPerResolution ==
    \A i, j \in Consulted :
        /\ depthLimitOf(invs[i].cfg) = depthLimitOf(invs[j].cfg)
        /\ invs[i].cfg.xincludeSupport = invs[j].cfg.xincludeSupport

(***************************************************************************)
(* The XML declaration of an acquired resource.                            *)
(***************************************************************************)
IsXmlDeclaration(tok) == tok.k = "pi" /\ tok.local = "xml"
StartsWithDeclaration(doc) == doc # <<>> /\ IsXmlDeclaration(Head(doc))
WithoutDeclaration(doc) == IF StartsWithDeclaration(doc) THEN Tail(doc) ELSE doc

\* The promises whose resource was delivered and handed to a nested call.
Delivered == {t \in DOMAIN tasks : tasks[t].child # 0}

\* C19: the text handed on from an acquired resource is the resource without
\* its one leading XML declaration when it starts with one, whatever the
\* declaration's layout (the white space after it aside), and the resource
\* itself when it starts with anything else: another processing instruction
\* or the root element stays.  An xpointer selects from that text.
C19_OnlyTheDeclarationStripped ==
    \A t \in Delivered :
        LET doc == Store[tasks[t].hrefURL]
            passedOn == invs[tasks[t].child].xmlSource
        IN  IF tasks[t].xpointer # NoXPointer
            THEN passedOn = selectXPointerFragment(WithoutDeclaration(doc), tasks[t].xpointer).fragment
            ELSE IF StartsWithDeclaration(doc)
            THEN SkipSpace(passedOn) = SkipSpace(Tail(doc))
            ELSE passedOn = doc

(***************************************************************************)
(* The span of the selector.                                               *)
(***************************************************************************)
\* The token whose "<" is at offset startPos.
SpanStart == sel.startPos + 1

\* The elements strictly inside element i that have a close tag of their own.
OpenDescendants(text, i) ==
    {d \in Elements(text) : i < d /\ d < ElementEnd(text, i) /\ ~text[d].isSelfClosing}

\* The handlers leave a start or an end that is set as it is.
SpanSetOnce ==
    /\ sel.startPos # -1 => sel'.startPos = sel.startPos
    /\ sel.endPos # -1 => sel'.endPos = sel.endPos

\* C20: whenever the selector returns a span, the span is one whole element of
\* the input: it starts at the "<" of the matched open tag and ends right
\* after that tag when the element is self-closing, otherwise right after the
\* close tag that returns the scan to the depth of the match, so that no
\* descendant ends it early; during the scan an end is only ever set to that
\* place, start and end are each set once, and the start is before the end.
C20_SpanIsOneWholeElement ==
    /\ [](selPhase = "returned" =>
            /\ sel.startPos # -1 /\ sel.endPos # -1
            /\ selResult.fragment = ElementText(xmlSource, SpanStart)
            /\ selResult.fragment = Substring(xmlSource, sel.startPos, sel.endPos))
    /\ [](sel.startPos # -1 => SpanStart \in Elements(xmlSource))
    /\ [](sel.endPos # -1 =>
            /\ sel.startPos # -1
            /\ sel.startPos < sel.endPos
            /\ sel.endPos = ElementEnd(xmlSource, SpanStart))
    /\ [][selPhase' = "scanning" => SpanSetOnce]_vars

\* The call returned an element that is not the root, was opened and closed
\* by tags of its own, and contains an element with the same name and a
\* close tag of its own.
C20_Witness ==
    /\ selPhase = "returned"
    /\ SpanStart > 1
    /\ ~xmlSource[SpanStart].isSelfClosing
    /\ \E d \in OpenDescendants(xmlSource, SpanStart) :
            xmlSource[d].local = xmlSource[SpanStart].local
    /\ sel.endPos < Len(xmlSource)

(***************************************************************************)
(* The selector's failure diagnostics.                                     *)
(***************************************************************************)
\* The failure names one of the steps as out of range.
NamesStep(steps) ==
    selResult.kind = "step out of range" /\ selResult.step \in 1..Len(steps)

\* The pointer addresses by an id, plain or as an anchor, that no element of
\* the text carries.
IdMatchesNothing ==
    \E x \in {"a", "b"} :
        /\ WithId(xmlSource, x) = {}
        /\ xpointer \in {XPtr(w, f, S(x)) : w \in BOOLEAN, f \in {"id", "bare"}}
                        \cup {Anchored(x, st) : st \in AnchoredSteps}

\* C21: on a well-formed text, a positional element() pointer, or an anchored
\* one whose anchor exists, that selects nothing fails with "step out of
\* range" naming one of its steps; "target not found" is produced only for
\* an id, plain or anchor, that no element carries.
C21_DiagnosticsComplete ==
    (SelEnded /\ selPhase = "threw" /\ xpointer \notin DegeneratePointers) =>
        /\ \A st \in PositionalSteps : xpointer = Positional(st) => NamesStep(st)
        /\ \A x \in {"a", "b"} : \A st \in AnchoredSteps :
                (xpointer = Anchored(x, st) /\ WithId(xmlSource, x) # {}) => NamesStep(st)
        /\ selResult.kind = "target not found" => IdMatchesNothing

============================================================================
